---- MODULE Spec2Model ----
(***************************************************************************)
(* Lexical scanner (work1.py, class Lexer) and LR(1) parser generator and  *)
(* driver (work2.py, classes Grammar and LR1Parser).                       *)
(*                                                                         *)
(* Python strings are modelled as sequences of one-character strings, so   *)
(* that indexing, slicing, joining and comparing work as in the source.    *)
(***************************************************************************)
EXTENDS Integers, Sequences, FiniteSets, TLC

(***************************************************************************)
(* Bounds of the model.                                                    *)
(***************************************************************************)
\* longest source text enumerated exhaustively over Alphabet
MaxLen == 3

(***************************************************************************)
(* Characters.                                                             *)
(***************************************************************************)
\* the characters from which the source texts are enumerated
Alphabet == {"e", "i", "_", "0", "1", ".", "+", ";", "\"", "\\", " ", "\n", "@"}

\* further characters that occur only in the fixed scenario texts
Letters == {"a", "e", "h", "i", "n", "r", "t", "x", "E"}
Digits == {"0", "1", "2", "3", "4", "5", "6", "7", "8", "9"}

\* str.isalpha(), str.isdigit(), str.isalnum() on one character
IsAlpha(c) == c \in Letters
IsDigit(c) == c \in Digits
IsAlnum(c) == IsAlpha(c) \/ IsDigit(c)
\* the class \w of the re module
IsWordChar(c) == IsAlnum(c) \/ c = "_"
\* str.lower() on one character
Lower(c) == IF c = "E" THEN "e" ELSE c

\* work1.py:119 and work1.py:121
OperatorChars == {"+", "-", "*", "/", "=", "<", ">", "!", "&", "|"}
DelimiterChars == {";", ",", "(", ")", "{", "}", "[", "]"}
\* work1.py:123
BlankChars == {" ", "\t", "\r"}
SignChars == {"+", "-"}

(***************************************************************************)
(* String helpers.                                                         *)
(***************************************************************************)
\* c in s
Contains(s, c) == \E k \in 1..Len(s) : s[k] = c
\* s.lower()
LowerStr(s) == [k \in 1..Len(s) |-> Lower(s[k])]
\* s[a:b] with 0-based half-open bounds, as Python slices
Slice(s, a, b) == SubSeq(s, a + 1, b)
\* s.split(c)[-1]: what follows the last occurrence of c, all of s if none
SplitLast(s, c) ==
    IF Contains(s, c)
    THEN LET k == CHOOSE j \in 1..Len(s) :
                     s[j] = c /\ \A m \in (j + 1)..Len(s) : s[m] # c
         IN SubSeq(s, k + 1, Len(s))
    ELSE s

(***************************************************************************)
(* Lexer.determine_token_type: the regular expressions, matched by hand.   *)
(***************************************************************************)
\* \d+
IsDigits(v) == v # <<>> /\ \A k \in 1..Len(v) : IsDigit(v[k])
\* (\d+\.\d+|\d+)
IsNum(v) ==
    \/ IsDigits(v)
    \/ \E k \in 1..Len(v) :
          /\ v[k] = "."
          /\ IsDigits(SubSeq(v, 1, k - 1))
          /\ IsDigits(SubSeq(v, k + 1, Len(v)))
\* the lengths of the prefixes matched by [+-]?
SignSkips(v) == IF v # <<>> /\ v[1] \in SignChars THEN {0, 1} ELSE {0}
\* $ of re.match also matches just before a final newline
DollarForms(v) ==
    IF v # <<>> /\ v[Len(v)] = "\n" THEN {v, SubSeq(v, 1, Len(v) - 1)} ELSE {v}

\* ^[a-zA-Z_]\w*
IdentifierBody(v) ==
    /\ v # <<>>
    /\ (IsAlpha(v[1]) \/ v[1] = "_")
    /\ \A k \in 2..Len(v) : IsWordChar(v[k])
\* ^[+-]?(\d+\.\d+|\d+)[Ee][+-]?\d+
ScientificBody(v) ==
    \E s \in SignSkips(v) : \E k \in (s + 1)..Len(v) :
        /\ v[k] \in {"e", "E"}
        /\ IsNum(SubSeq(v, s + 1, k - 1))
        /\ LET r == SubSeq(v, k + 1, Len(v))
           IN \E t \in SignSkips(r) : IsDigits(SubSeq(r, t + 1, Len(r)))
\* ^[+-]?(\d+\.\d+|\d+)[+-](\d+\.\d+|\d+)i
ComplexBody(v) ==
    /\ v # <<>>
    /\ v[Len(v)] = "i"
    /\ \E s \in SignSkips(v) : \E k \in (s + 1)..Len(v) :
          /\ v[k] \in SignChars
          /\ IsNum(SubSeq(v, s + 1, k - 1))
          /\ IsNum(SubSeq(v, k + 1, Len(v) - 1))
\* ^([1-9]\d*|0)
IntegerBody(v) == v = <<"0">> \/ (IsDigits(v) /\ v[1] # "0")
\* ^[+-]?\d+\.\d+
FloatBody(v) ==
    \E s \in SignSkips(v) : \E k \in (s + 1)..Len(v) :
        /\ v[k] = "."
        /\ IsDigits(SubSeq(v, s + 1, k - 1))
        /\ IsDigits(SubSeq(v, k + 1, Len(v)))
\* ^".*" or ^'.*' ('.' matches no newline)
StringBody(v) ==
    /\ Len(v) >= 2
    /\ \E q \in {"\"", "'"} : v[1] = q /\ v[Len(v)] = q
    /\ \A k \in 2..(Len(v) - 1) : v[k] # "\n"

MatchIdentifier(v) == \E w \in DollarForms(v) : IdentifierBody(w)
MatchScientific(v) == \E w \in DollarForms(v) : ScientificBody(w)
MatchComplex(v) == \E w \in DollarForms(v) : ComplexBody(w)
MatchInteger(v) == \E w \in DollarForms(v) : IntegerBody(w)
MatchFloat(v) == \E w \in DollarForms(v) : FloatBody(w)
MatchString(v) == \E w \in DollarForms(v) : StringBody(w)

\* a plausible slip: the identifier pattern is tried before the keyword set
determine_token_type_IdentFirst(kw, value) ==
    IF MatchIdentifier(value) THEN "IDENTIFIER"
    ELSE IF value \in kw THEN "KEYWORD"
    ELSE IF MatchScientific(value) THEN "CONSTANT"
    ELSE IF MatchComplex(value) THEN "CONSTANT"
    ELSE IF MatchInteger(value) THEN "CONSTANT"
    ELSE IF MatchFloat(value) THEN "CONSTANT"
    ELSE IF MatchString(value) THEN "CONSTANT"
    ELSE "ERROR"

determine_token_type(kw, value) ==
    IF value \in kw THEN "KEYWORD"
    ELSE IF MatchIdentifier(value) THEN "IDENTIFIER"
    ELSE IF MatchScientific(value) THEN "CONSTANT"
    ELSE IF MatchComplex(value) THEN "CONSTANT"
    ELSE IF MatchInteger(value) THEN "CONSTANT"
    ELSE IF MatchFloat(value) THEN "CONSTANT"
    ELSE IF MatchString(value) THEN "CONSTANT"
    ELSE "ERROR"

(***************************************************************************)
(* State.                                                                  *)
(***************************************************************************)
VARIABLES
    keywords,        \* Lexer.grammar.keywords
    code,            \* the argument of tokenize (self.current_input)
    pos,             \* self.pos
    line,            \* self.line
    current_state,   \* self.current_state
    buffer,          \* self.buffer
    tokens,          \* self.tokens
    lpc,             \* where the Lexer is: "idle", "scan" (in the loop), "done"
    returned,        \* what the tokenize calls on this Lexer have returned so far
    gfile,           \* the grammar file LR1Parser is constructed from
    hashseed,        \* the hash seed of the run that constructed the parser
    grammar,         \* LR1Parser.grammar
    first_sets,      \* LR1Parser.first_sets
    states,          \* LR1Parser.states
    goto,            \* LR1Parser.goto
    action_table,    \* LR1Parser.action_table
    goto_table,      \* LR1Parser.goto_table
    states_dump,     \* the content written to states.txt
    ptokens,         \* parse: the argument tokens
    stack,           \* parse: stack
    ppos,            \* parse: pos
    errors,          \* parse: errors
    reduced,         \* parse: the productions of the "Reduced by" trace lines
    presult,         \* parse: "none", "success", "failure", or the exception raised
    ppc,             \* where the parser is: "ready", "parsing", "returned", "raised"
    other            \* the locals of a second parse invocation on the same parser

lexVars == <<keywords, code, pos, line, current_state, buffer, tokens, lpc, returned>>
tableVars == <<gfile, hashseed, grammar, first_sets, states, goto, action_table,
               goto_table, states_dump>>
parVars == <<gfile, hashseed, grammar, first_sets, states, goto, action_table,
             goto_table, states_dump, ptokens, stack, ppos, errors, reduced,
             presult, ppc, other>>
vars == <<keywords, code, pos, line, current_state, buffer, tokens, lpc, returned,
          gfile, hashseed, grammar, first_sets, states, goto, action_table,
          goto_table, states_dump, ptokens, stack, ppos, errors, reduced,
          presult, ppc, other>>

\* Token(line, token_type, value)
Token(l, ty, v) == [line |-> l, type |-> ty, value |-> v]

\* the keyword sets a lexical grammar file may give (its Keyword rule)
KeywordSets == { {<<"i">>, <<"i", "n", "t">>}, {<<"e">>, <<"1">>} }

\* the fixed source texts of the scenarios
Scenarios ==
    { <<"i", "n", "t", " ", "x", " ", "=", " ", "4", "2", ";">>,
      <<"0", "1", "2", "3">>,
      <<"1", ".", "5", "e", "-", "3">>,
      <<"\"", "h", "i", "\n", "t", "h", "e", "r", "e", "\"">>,
      <<"1", "+", "2", ";">>,
      <<"1", "+", "1", "i">>,
      <<"\"", "\\", "\"", "\"">> }

\* every text over Alphabet of at most MaxLen characters, and the scenarios
Inputs == (UNION {[1..n -> Alphabet] : n \in 0..MaxLen}) \cup Scenarios

\* the locals of a parse invocation that has not begun
NoInvocation(pc) ==
    [ptokens |-> <<>>, stack |-> <<>>, ppos |-> 0, errors |-> <<>>,
     presult |-> "none", ppc |-> pc]

\* the parser is not used by the lexer runs
ParIdle ==
    /\ gfile = <<>>
    /\ hashseed = 0
    /\ grammar = <<>>
    /\ first_sets = <<>>
    /\ states = <<>>
    /\ goto = <<>>
    /\ action_table = <<>>
    /\ goto_table = <<>>
    /\ states_dump = <<>>
    /\ ptokens = <<>>
    /\ stack = <<>>
    /\ ppos = 0
    /\ errors = <<>>
    /\ reduced = <<>>
    /\ presult = "none"
    /\ ppc = "none"
    /\ other = NoInvocation("none")

(***************************************************************************)
(* Lexer.__init__ (work1.py:64-68).                                        *)
(***************************************************************************)
LexInit ==
    /\ keywords \in KeywordSets
    /\ code = <<>>
    /\ pos = 0
    /\ line = 1
    /\ current_state = "NONE"
    /\ buffer = <<>>
    /\ tokens = <<>>
    /\ lpc = "idle"
    /\ returned = <<>>
    /\ ParIdle

\* tokenize, lines 90-93: the call and the resets before the loop
TokenizeCall ==
    /\ lpc = "idle"
    /\ \E s \in Inputs : code' = s
    /\ current_state' = "START"
    /\ buffer' = <<>>
    /\ pos' = 0
    /\ lpc' = "scan"
    /\ UNCHANGED <<keywords, line, tokens, returned>>
    /\ UNCHANGED parVars

\* the loop head, lines 95-100: the character read and the line after it
InLoop(st) == lpc = "scan" /\ pos < Len(code) /\ current_state = st
CurChar == code[pos + 1]
\* a plausible slip: the counter steps the wrong way
LineAfterDown(c) == IF c = "\n" THEN line - 1 ELSE line
LineAfter(c) == IF c = "\n" THEN line + 1 ELSE line

\* finalize_token on buffer buf at line l: the token list after it
Finalized(buf, l) ==
    Append(tokens, Token(l, determine_token_type(keywords, buf), buf))

\* handle_start
HandleStart ==
    /\ InLoop("START")
    /\ LET c == CurChar
           l == LineAfter(c)
       IN /\ pos' = pos + 1
          /\ line' = l
          /\ IF IsAlpha(c) \/ c = "_"
             THEN /\ current_state' = "IDENTIFIER"
                  /\ buffer' = Append(buffer, c)
                  /\ tokens' = tokens
             ELSE IF IsDigit(c)
             THEN /\ current_state' = "NUMBER"
                  /\ buffer' = Append(buffer, c)
                  /\ tokens' = tokens
             ELSE IF c = "\""
             THEN /\ current_state' = "STRING"
                  /\ buffer' = Append(buffer, c)
                  /\ tokens' = tokens
             ELSE IF c \in OperatorChars
             THEN /\ tokens' = Append(tokens, Token(l, "OPERATOR", <<c>>))
                  /\ UNCHANGED <<current_state, buffer>>
             ELSE IF c \in DelimiterChars
             THEN /\ tokens' = Append(tokens, Token(l, "DELIMITER", <<c>>))
                  /\ UNCHANGED <<current_state, buffer>>
             ELSE \* blank characters pass; the final else branch is commented out
                  UNCHANGED <<current_state, buffer, tokens>>
    /\ UNCHANGED <<keywords, code, lpc, returned>>
    /\ UNCHANGED parVars

\* a plausible slip: the newline branch of handle_string is left out
BreaksStringNever(c) == FALSE
\* line 134: the character that breaks off a string
BreaksString(c) == c = "\n"

\* a plausible slip: the escape is not looked at
ClosesStringAnyQuote(buf, c) == c = "\""
\* line 131: the quote that ends a string, on the buffer with c appended
ClosesString(buf, c) == c = "\"" /\ buf[Len(buf) - 1] # "\\"

\* handle_string
HandleString ==
    /\ InLoop("STRING")
    /\ LET c == CurChar
           l == LineAfter(c)
           buf == Append(buffer, c)
       IN /\ pos' = pos + 1
          /\ line' = l
          /\ IF ClosesString(buf, c)
             THEN /\ tokens' = Finalized(buf, l)
                  /\ buffer' = <<>>
                  /\ current_state' = "START"
             ELSE IF BreaksString(c)
             THEN /\ tokens' = Append(tokens, Token(l, "ERROR", buf))
                  /\ buffer' = <<>>
                  /\ current_state' = "START"
             ELSE /\ buffer' = buf
                  /\ UNCHANGED <<tokens, current_state>>
    /\ UNCHANGED <<keywords, code, lpc, returned>>
    /\ UNCHANGED parVars

\* a plausible slip: the back-step is forgotten
BackStepNone(p) == p
\* self.pos -= 1 (lines 143, 178, 186): the finalizing character is read again
BackStep(p) == p - 1

\* handle_identifier
HandleIdentifier ==
    /\ InLoop("IDENTIFIER")
    /\ LET c == CurChar
           l == LineAfter(c)
       IN /\ line' = l
          /\ IF IsAlnum(c) \/ c = "_"
             THEN /\ buffer' = Append(buffer, c)
                  /\ pos' = pos + 1
                  /\ UNCHANGED <<tokens, current_state>>
             ELSE /\ tokens' = Finalized(buffer, l)
                  /\ buffer' = <<>>
                  /\ pos' = BackStep(pos + 1)
                  /\ current_state' = "START"
    /\ UNCHANGED <<keywords, code, lpc, returned>>
    /\ UNCHANGED parVars

\* a plausible slip: the leading-zero branch takes one digit and stops
ScanDigitsOneOnly(s, p) == p

\* the while loop of handle_number, lines 154-156: the position after the
\* digits that follow position p
RECURSIVE ScanDigits(_, _)
ScanDigits(s, p) ==
    IF p < Len(s) /\ IsDigit(s[p + 1]) THEN ScanDigits(s, p + 1) ELSE p

\* handle_number
HandleNumber ==
    /\ InLoop("NUMBER")
    /\ LET c == CurChar
           l == LineAfter(c)
           buffer_str == buffer
       IN /\ line' = l
          /\ IF Len(buffer_str) = 1 /\ buffer_str[1] = "0" /\ IsDigit(c)
             THEN LET endp == ScanDigits(code, pos + 1)
                      run == Append(buffer, c) \o Slice(code, pos + 1, endp)
                  IN /\ pos' = endp
                     /\ tokens' = Append(tokens, Token(l, "ERROR", run))
                     /\ buffer' = <<>>
                     /\ current_state' = "START"
             ELSE IF IsDigit(c)
             THEN /\ buffer' = Append(buffer, c)
                  /\ pos' = pos + 1
                  /\ UNCHANGED <<tokens, current_state>>
             ELSE IF /\ c = "."
                     /\ ~Contains(buffer_str, ".")
                     /\ ~Contains(LowerStr(buffer_str), "e")
             THEN /\ buffer' = Append(buffer, c)
                  /\ pos' = pos + 1
                  /\ UNCHANGED <<tokens, current_state>>
             ELSE IF Lower(c) = "e" /\ ~Contains(LowerStr(buffer_str), "e")
             THEN /\ buffer' = Append(buffer, c)
                  /\ pos' = pos + 1
                  /\ current_state' = "SCIENTIFIC"
                  /\ tokens' = tokens
             ELSE IF c \in SignChars
             THEN /\ buffer' = Append(buffer, c)
                  /\ pos' = pos + 1
                  /\ current_state' =
                        IF Lower(buffer_str[Len(buffer_str)]) = "e"
                        THEN current_state ELSE "COMPLEX"
                  /\ tokens' = tokens
             ELSE /\ tokens' = Finalized(buffer, l)
                  /\ buffer' = <<>>
                  /\ pos' = BackStep(pos + 1)
                  /\ current_state' = "START"
    /\ UNCHANGED <<keywords, code, lpc, returned>>
    /\ UNCHANGED parVars

\* handle_scientific
HandleScientific ==
    /\ InLoop("SCIENTIFIC")
    /\ LET c == CurChar
           l == LineAfter(c)
       IN /\ line' = l
          /\ IF IsDigit(c) \/ c \in SignChars
             THEN /\ buffer' = Append(buffer, c)
                  /\ pos' = pos + 1
                  /\ UNCHANGED <<tokens, current_state>>
             ELSE /\ tokens' = Finalized(buffer, l)
                  /\ buffer' = <<>>
                  /\ pos' = BackStep(pos + 1)
                  /\ current_state' = "START"
    /\ UNCHANGED <<keywords, code, lpc, returned>>
    /\ UNCHANGED parVars

\* a plausible slip: the two characters are stepped back twice
BackStepTwoTwice(p) == (p - 2) - 2
\* self.pos -= 2 (line 206): the scan goes on at the character before the
\* one just read
BackStepTwo(p) == p - 2

\* handle_complex
HandleComplex ==
    /\ InLoop("COMPLEX")
    /\ LET c == CurChar
           l == LineAfter(c)
           buffer_str == buffer
       IN /\ line' = l
          /\ IF IsDigit(c)
             THEN /\ buffer' = Append(buffer, c)
                  /\ pos' = pos + 1
                  /\ UNCHANGED <<tokens, current_state>>
             ELSE IF /\ c = "."
                     /\ ~Contains(SplitLast(SplitLast(buffer_str, "+"), "-"), ".")
             THEN /\ buffer' = Append(buffer, c)
                  /\ pos' = pos + 1
                  /\ UNCHANGED <<tokens, current_state>>
             ELSE IF c = "i" /\ Len(buffer_str) > 1
             THEN /\ tokens' = Finalized(Append(buffer, c), l)
                  /\ buffer' = <<>>
                  /\ pos' = pos + 1
                  /\ current_state' = "START"
             ELSE LET value == Slice(buffer_str, 0, Len(buffer_str) - 1)
                  IN /\ tokens' = IF value # <<>> THEN Finalized(value, l)
                                  ELSE tokens
                     /\ pos' = BackStepTwo(pos + 1)
                     /\ current_state' = "START"
                     /\ buffer' = <<>>
    /\ UNCHANGED <<keywords, code, lpc, returned>>
    /\ UNCHANGED parVars

\* a plausible slip: the loop is left only past the end of the text
LoopEndsPastEnd == pos > Len(code)
\* line 95: the condition of the while loop is false
LoopEnds == pos >= Len(code)

\* tokenize, lines 104-107: the loop has ended; flush the buffer and return
TokenizeReturn ==
    /\ lpc = "scan"
    /\ LoopEnds
    /\ tokens' = IF buffer # <<>> THEN Finalized(buffer, line) ELSE tokens
    /\ buffer' = <<>>
    /\ lpc' = "done"
    /\ returned' = Append(returned, [code |-> code, tokens |-> tokens'])
    /\ UNCHANGED <<keywords, code, pos, line, current_state>>
    /\ UNCHANGED parVars

LexNext ==
    \/ TokenizeCall
    \/ HandleStart
    \/ HandleString
    \/ HandleIdentifier
    \/ HandleNumber
    \/ HandleScientific
    \/ HandleComplex
    \/ TokenizeReturn

SpecLexer == LexInit /\ [][LexNext]_vars

\* tokenize runs on the thread of its caller: a call that can take a step
\* takes one
SpecLexerFair == LexInit /\ [][LexNext]_vars /\ WF_vars(LexNext)

(***************************************************************************)
(* A Lexer used for more than one tokenize call.                           *)
(***************************************************************************)
\* the number of tokenize calls made on one Lexer
MaxCalls == 2
\* the texts of a later call: the text of the first call, or a scenario
ReuseInputs == {returned[1].code} \cup Scenarios

\* tokenize, lines 90-93, called on a Lexer that has returned from a call:
\* current_state, buffer and pos are reset, self.line and self.tokens are not
TokenizeAgain ==
    /\ lpc = "done"
    /\ Len(returned) < MaxCalls
    /\ \E s \in ReuseInputs : code' = s
    /\ current_state' = "START"
    /\ buffer' = <<>>
    /\ pos' = 0
    /\ lpc' = "scan"
    /\ UNCHANGED <<keywords, line, tokens, returned>>
    /\ UNCHANGED parVars

LexReuseNext ==
    \/ LexNext
    \/ TokenizeAgain

SpecLexerReuse == LexInit /\ [][LexReuseNext]_vars

(***************************************************************************)
(* Grammar symbols (work2.py).  A symbol is a Python string: a sequence of *)
(* characters.                                                             *)
(***************************************************************************)
\* the one-character string U+03B5 (Greek small epsilon), written in ASCII
EPS == <<"epsilon">>
\* the end marker '$'
END == <<"$">>
\* the special tokens of _load_grammar and _convert_tokens
IdSym == <<"I", "D">>
ConstantSym == <<"C", "O", "N", "S", "T", "A", "N", "T">>
\* None, as get_next_symbol returns it
NoSymbol == <<>>

\* str.isupper() on one character
UpperLetters == {"A", "B", "C", "D", "E", "F", "I", "N", "O", "S", "T", "X"}
IsUpper(c) == c \in UpperLetters

\* the characters of symbols in the order of their code points
CharOrder ==
    <<"$", "'", "(", ")", "*", "+", "1", "A", "B", "C", "D", "E", "F", "I",
      "N", "O", "S", "T", "X", "a", "b", "c", "i", "n", "t", "x">>
CodePoint(c) == CHOOSE k \in 1..Len(CharOrder) : CharOrder[k] = c
\* a < b on Python strings
RECURSIVE StrLess(_, _)
StrLess(a, b) ==
    IF b = <<>> THEN FALSE
    ELSE IF a = <<>> THEN TRUE
    ELSE IF a[1] = b[1] THEN StrLess(Tail(a), Tail(b))
    ELSE CodePoint(a[1]) < CodePoint(b[1])
\* sorted(S) for a set S of strings
RECURSIVE SortedStrs(_)
SortedStrs(S) ==
    IF S = {} THEN <<>>
    ELSE LET m == CHOOSE x \in S : \A y \in S \ {x} : StrLess(x, y)
         IN <<m>> \o SortedStrs(S \ {m})
\* f"'{value}'"
Quoted(s) == <<"'">> \o s \o <<"'">>

(***************************************************************************)
(* Grammar._load_grammar.  A grammar file is the sequence of its non-blank *)
(* lines, each already split at the arrow, at '|' and at whitespace:       *)
(* [left |-> lhs, alts |-> <<parts of alternative 1, ...>>].               *)
(***************************************************************************)
Production(l, r) == [left |-> l, right |-> r]

\* lines 127-138: the symbol a part stands for
PartIsQuoted(part) == part[1] = "'" /\ part[Len(part)] = "'"
PartIsTerminal(part) ==
    part \in {IdSym, ConstantSym} \/ PartIsQuoted(part) \/ ~IsUpper(part[1])
PartSymbol(part) ==
    IF part \in {IdSym, ConstantSym} THEN part
    ELSE IF PartIsQuoted(part) THEN part
    ELSE IF IsUpper(part[1]) THEN part
    ELSE Quoted(part)
\* lines 121-144: the production of one alternative ('epsilon' parts are skipped)
AltSymbols(alt) ==
    LET kept == SelectSeq(alt, LAMBDA part : part # EPS)
    IN [k \in 1..Len(kept) |-> PartSymbol(kept[k])]
LineProductions(ln) ==
    [k \in 1..Len(ln.alts) |-> Production(ln.left, AltSymbols(ln.alts[k]))]
RECURSIVE FileProductions(_)
FileProductions(file) ==
    IF file = <<>> THEN <<>>
    ELSE LineProductions(Head(file)) \o FileProductions(Tail(file))
\* every part of the file that is not 'epsilon'
FileParts(file) ==
    UNION { UNION { {ln.alts[a][k] : k \in 1..Len(ln.alts[a])}
                    : a \in 1..Len(ln.alts) }
            : ln \in {file[j] : j \in 1..Len(file)} } \ {EPS}

LoadGrammar(file) ==
    [ productions |-> FileProductions(file),
      terminals |-> {PartSymbol(p) : p \in {q \in FileParts(file) : PartIsTerminal(q)}},
      non_terminals |->
          {file[j].left : j \in 1..Len(file)}
            \cup {p \in FileParts(file) : ~PartIsTerminal(p)},
      start_symbol |-> file[1].left ]

\* the productions of g as a set, and those of one left side
ProdSet(g) == {g.productions[k] : k \in 1..Len(g.productions)}
ProdsOf(g, A) == {p \in ProdSet(g) : p.left = A}
\* the index of the first production equal to p
ProdIndex(g, p) ==
    CHOOSE k \in 1..Len(g.productions) :
        /\ g.productions[k] = p
        /\ \A j \in 1..(k - 1) : g.productions[j] # p

(***************************************************************************)
(* LR1Parser._compute_first_sets.                                          *)
(***************************************************************************)
\* lines 187-198: the for-else over the symbols of prod.right from index k
RECURSIVE FirstWalk(_, _, _)
FirstWalk(first, prod, k) ==
    IF k > Len(prod.right)
    THEN [first EXCEPT ![prod.left] = @ \cup {EPS}]
    ELSE LET symbol == prod.right[k]
             f2 == [first EXCEPT ![prod.left] = @ \cup (first[symbol] \ {EPS})]
         IN IF EPS \notin f2[symbol] THEN f2 ELSE FirstWalk(f2, prod, k + 1)
\* lines 179-198: one pass over the productions from index j
RECURSIVE FirstPass(_, _, _)
FirstPass(first, g, j) ==
    IF j > Len(g.productions) THEN first
    ELSE LET prod == g.productions[j]
             f2 == IF prod.right = <<>>
                   THEN [first EXCEPT ![prod.left] = @ \cup {EPS}]
                   ELSE FirstWalk(first, prod, 1)
         IN FirstPass(f2, g, j + 1)
\* lines 176-198: passes until one changes nothing
RECURSIVE FirstFix(_, _)
FirstFix(first, g) ==
    LET f2 == FirstPass(first, g, 1)
    IN IF f2 = first THEN first ELSE FirstFix(f2, g)
compute_first_sets(g) ==
    FirstFix([s \in g.terminals \cup g.non_terminals |->
                 IF s \in g.terminals THEN {s} ELSE {}], g)

(***************************************************************************)
(* LR(1) items, closure, goto.                                            *)
(***************************************************************************)
LR1Item(p, d, la) == [production |-> p, dot_position |-> d, lookahead |-> la]
get_next_symbol(item) ==
    IF item.dot_position < Len(item.production.right)
    THEN item.production.right[item.dot_position + 1]
    ELSE NoSymbol
is_complete(item) == item.dot_position >= Len(item.production.right)

\* lines 229-234: the for-else over beta from index k
RECURSIVE BetaFirst(_, _, _, _, _)
BetaFirst(fsets, beta, k, la, acc) ==
    IF k > Len(beta) THEN acc \cup {la}
    ELSE LET acc2 == acc \cup fsets[beta[k]]
         IN IF EPS \notin fsets[beta[k]] THEN acc2
            ELSE BetaFirst(fsets, beta, k + 1, la, acc2)
\* a plausible slip: what follows the non-terminal is not looked at
compute_lookaheads_Own(fsets, item) == {item.lookahead}
compute_lookaheads(fsets, item) ==
    IF item.dot_position >= Len(item.production.right) - 1
    THEN {item.lookahead}
    ELSE LET beta == Slice(item.production.right, item.dot_position + 1,
                           Len(item.production.right))
         IN BetaFirst(fsets, beta, 1, item.lookahead, {}) \ {EPS}

RECURSIVE closure(_, _, _)
closure(g, fsets, result) ==
    LET new_items ==
            UNION { { LR1Item(prod, 0, la) :
                        prod \in ProdsOf(g, get_next_symbol(item)),
                        la \in compute_lookaheads(fsets, item) }
                    : item \in {it \in result :
                                  get_next_symbol(it) \in g.non_terminals} }
              \ result
    IN IF new_items = {} THEN result
       ELSE closure(g, fsets, result \cup new_items)

\* a plausible slip: the dot is not advanced over the symbol
goto_items_DotKept(g, fsets, items, symbol) ==
    closure(g, fsets, {item \in items : get_next_symbol(item) = symbol})

goto_items(g, fsets, items, symbol) ==
    closure(g, fsets,
            { LR1Item(item.production, item.dot_position + 1, item.lookahead) :
                item \in {it \in items : get_next_symbol(it) = symbol} })

(***************************************************************************)
(* LR1Parser._build_states.  State i of the source is sts[i + 1].       *)
(***************************************************************************)
\* state_map[s]
StateIndex(sts, s) == (CHOOSE k \in 1..Len(sts) : sts[k] = s) - 1

\* lines 274-285: the sorted symbols of state index, from position k on
RECURSIVE BuildSymbols(_, _, _, _, _, _)
BuildSymbols(g, fsets, acc, index, syms, k) ==
    IF k > Len(syms) THEN acc
    ELSE LET symbol == syms[k]
             next_state == goto_items(g, fsets, acc.states[index + 1], symbol)
             known == \E j \in 1..Len(acc.states) : acc.states[j] = next_state
             acc2 ==
                 IF next_state = {} THEN acc
                 ELSE IF known
                 THEN [acc EXCEPT !.goto =
                          (<<index, symbol>> :> StateIndex(acc.states, next_state)) @@ @]
                 ELSE [states |-> Append(acc.states, next_state),
                       goto |-> (<<index, symbol>> :> Len(acc.states)) @@ acc.goto]
         IN BuildSymbols(g, fsets, acc2, index, syms, k + 1)
\* lines 264-287: the loop over the sts found so far
RECURSIVE BuildLoop(_, _, _, _)
BuildLoop(g, fsets, acc, index) ==
    IF index >= Len(acc.states) THEN acc
    ELSE LET state == acc.states[index + 1]
             symbols == {get_next_symbol(item) : item \in state} \ {NoSymbol}
         IN BuildLoop(g, fsets,
                      BuildSymbols(g, fsets, acc, index, SortedStrs(symbols), 1),
                      index + 1)
\* line 255: the first production of the start symbol
StartProd(g) ==
    g.productions[CHOOSE k \in 1..Len(g.productions) :
                     /\ g.productions[k].left = g.start_symbol
                     /\ \A j \in 1..(k - 1) : g.productions[j].left # g.start_symbol]
build_states(g, fsets) ==
    LET initial_state == closure(g, fsets, {LR1Item(StartProd(g), 0, END)})
    IN BuildLoop(g, fsets, [states |-> <<initial_state>>, goto |-> <<>>], 0)

(***************************************************************************)
(* The order in which Python iterates a state (a frozenset of items): the  *)
(* order of the set's hash table, which depends on the hash seed of the    *)
(* process (str hashes are salted per run) and is therefore no function of *)
(* the grammar.  The model lets a run use any rotation of the items'       *)
(* order by (production, dot, lookahead): every item can come last.        *)
(***************************************************************************)
ItemLess(g, a, b) ==
    LET pa == ProdIndex(g, a.production)
        pb == ProdIndex(g, b.production)
    IN \/ pa < pb
       \/ pa = pb /\ a.dot_position < b.dot_position
       \/ pa = pb /\ a.dot_position = b.dot_position
             /\ StrLess(a.lookahead, b.lookahead)
RECURSIVE SortedItems(_, _)
SortedItems(g, S) ==
    IF S = {} THEN <<>>
    ELSE LET m == CHOOSE x \in S : \A y \in S \ {x} : ItemLess(g, x, y)
         IN <<m>> \o SortedItems(g, S \ {m})
\* for item in state
IterationOrder(g, state, seed) ==
    LET base == SortedItems(g, state)
        n == Len(base)
        r == IF n = 0 THEN 0 ELSE (seed - 1) % n
    IN SubSeq(base, r + 1, n) \o SubSeq(base, 1, r)

(***************************************************************************)
(* LR1Parser._build_parsing_tables.                                        *)
(***************************************************************************)
Shift(s) == [type |-> "shift", value |-> s]
Reduce(p) == [type |-> "reduce", value |-> p]
Accept == [type |-> "accept", value |-> NoSymbol]

\* a plausible slip: the check for an existing shift is left out
shift_occupies_Never(action, key) == FALSE

\* lines 331-333: a shift already occupies action[key]
shift_occupies(action, key) ==
    key \in DOMAIN action /\ action[key].type = "shift"

\* lines 324-341: the items of state i in iteration order, from position k on
RECURSIVE ReduceLoop(_, _, _, _, _)
ReduceLoop(g, action, i, items, k) ==
    IF k > Len(items) THEN action
    ELSE LET item == items[k]
             a2 == IF ~is_complete(item) THEN action
                   ELSE IF item.production.left = g.start_symbol
                   THEN (<<i, END>> :> Accept) @@ action
                   ELSE IF shift_occupies(action, <<i, item.lookahead>>)
                   THEN action
                   ELSE (<<i, item.lookahead>> :> Reduce(item.production)) @@ action
         IN ReduceLoop(g, a2, i, items, k + 1)
\* lines 313-321: the shifts and gotos of state i (distinct keys: the order in
\* which the symbols are visited does not matter)
ShiftEntries(g, gto, i) ==
    [key \in {q \in DOMAIN gto : q[1] = i /\ q[2] \in g.terminals}
        |-> Shift(gto[key])]
GotoEntries(g, gto, i) ==
    [key \in {q \in DOMAIN gto : q[1] = i /\ q[2] \notin g.terminals
                                   /\ q[2] \in g.non_terminals}
        |-> gto[key]]
\* lines 309-341, one pass of the loop over the states: the entries state i
\* adds.  Every key written or read in the pass is (i, symbol), so the pass
\* sees none of the entries of the states before it.
StateActions(g, sts, gto, seed, i) ==
    ReduceLoop(g, ShiftEntries(g, gto, i), i,
               IterationOrder(g, sts[i + 1], seed), 1)
\* lines 309-341: the tables after the passes for the states 0 .. n-1
RECURSIVE TablesLoop(_, _, _, _, _)
TablesLoop(g, sts, gto, seed, n) ==
    IF n = 0 THEN [action |-> <<>>, goto_table |-> <<>>]
    ELSE LET acc == TablesLoop(g, sts, gto, seed, n - 1)
         IN [action |-> StateActions(g, sts, gto, seed, n - 1) @@ acc.action,
             goto_table |-> GotoEntries(g, gto, n - 1) @@ acc.goto_table]
build_parsing_tables(g, sts, gto, seed) ==
    TablesLoop(g, sts, gto, seed, Len(sts))

\* lines 290-297: sts.txt, the items of each state in iteration order
StatesDump(g, sts, seed) ==
    [k \in 1..Len(sts) |-> IterationOrder(g, sts[k], seed)]

\* LR1Parser.__init__ on grammar file gf in a process with hash seed `seed`
NewParser(gf, seed) ==
    LET g == LoadGrammar(gf)
        fs == compute_first_sets(g)
        sg == build_states(g, fs)
        tb == build_parsing_tables(g, sg.states, sg.goto, seed)
    IN [ grammar |-> g, first_sets |-> fs, states |-> sg.states, goto |-> sg.goto,
         action_table |-> tb.action, goto_table |-> tb.goto_table,
         states_dump |-> StatesDump(g, sg.states, seed) ]

\* _convert_tokens
ConvertToken(t) ==
    IF t.type = "KEYWORD" THEN Quoted(t.value)
    ELSE IF t.type = "IDENTIFIER" THEN IdSym
    ELSE IF t.type = "CONSTANT" THEN ConstantSym
    ELSE Quoted(t.value)
convert_tokens(toks) == [k \in 1..Len(toks) |-> ConvertToken(toks[k])]

(***************************************************************************)
(* The grammar files and token lists the parser is run on.                 *)
(***************************************************************************)
Sym(c) == <<c>>
Q(c) == <<"'", c, "'">>
GLine(l, a) == [left |-> l, alts |-> a]

\* E -> E '+' T | T ; T -> T '*' F | F ; F -> '(' E ')' | IdSym
G_S5 ==
    << GLine(Sym("E"), << <<Sym("E"), Q("+"), Sym("T")>>, <<Sym("T")>> >>),
       GLine(Sym("T"), << <<Sym("T"), Q("*"), Sym("F")>>, <<Sym("F")>> >>),
       GLine(Sym("F"), << <<Q("("), Sym("E"), Q(")")>>, <<IdSym>> >>) >>
\* S -> E ; E -> E '+' T | T ; T -> '(' E ')' | IdSym
G_Aug ==
    << GLine(Sym("S"), << <<Sym("E")>> >>),
       GLine(Sym("E"), << <<Sym("E"), Q("+"), Sym("T")>>, <<Sym("T")>> >>),
       GLine(Sym("T"), << <<Q("("), Sym("E"), Q(")")>>, <<IdSym>> >>) >>
\* S -> '(' S ')' | IdSym
G_Nest ==
    << GLine(Sym("S"), << <<Q("("), Sym("S"), Q(")")>>, <<IdSym>> >>) >>
\* S -> E ; E -> E + E | IdSym      (the + is written bare)
G_Amb ==
    << GLine(Sym("S"), << <<Sym("E")>> >>),
       GLine(Sym("E"), << <<Sym("E"), Sym("+"), Sym("E")>>, <<IdSym>> >>) >>
\* S -> X ; X -> A | B ; A -> IdSym ; B -> IdSym
G_RR ==
    << GLine(Sym("S"), << <<Sym("X")>> >>),
       GLine(Sym("X"), << <<Sym("A")>>, <<Sym("B")>> >>),
       GLine(Sym("A"), << <<IdSym>> >>),
       GLine(Sym("B"), << <<IdSym>> >>) >>
\* S -> A ; A -> IdSym A | epsilon
G_Eps ==
    << GLine(Sym("S"), << <<Sym("A")>> >>),
       GLine(Sym("A"), << <<IdSym, Sym("A")>>, <<EPS>> >>) >>
\* S -> A ; A -> A B | epsilon ; B -> epsilon
G_Loop ==
    << GLine(Sym("S"), << <<Sym("A")>> >>),
       GLine(Sym("A"), << <<Sym("A"), Sym("B")>>, <<EPS>> >>),
       GLine(Sym("B"), << <<EPS>> >>) >>

GrammarFiles == {G_S5, G_Aug, G_Nest, G_Amb, G_RR, G_Eps, G_Loop}

\* longest token list enumerated exhaustively over TokenKinds
MaxToks == 3
\* number of hash seeds (iteration orders) a run may have
NumSeeds == 2
Seeds == 1..NumSeeds

\* (type, value) of the tokens the lists are enumerated from
TokenKinds ==
    { <<"IDENTIFIER", <<"x">>>>, <<"OPERATOR", <<"+">>>>, <<"OPERATOR", <<"*">>>>,
      <<"DELIMITER", <<"(">>>>, <<"DELIMITER", <<")">>>> }
\* the k-th token of an enumerated list stands on line k
MkTokens(w) == [k \in 1..Len(w) |-> Token(k, w[k][1], w[k][2])]
\* the tokens of x + x * x, all on line 1
S5Tokens ==
    << Token(1, "IDENTIFIER", <<"x">>), Token(1, "OPERATOR", <<"+">>),
       Token(1, "IDENTIFIER", <<"x">>), Token(1, "OPERATOR", <<"*">>),
       Token(1, "IDENTIFIER", <<"x">>) >>
\* the tokens of x + + x, all on line 1
S6Tokens ==
    << Token(1, "IDENTIFIER", <<"x">>), Token(1, "OPERATOR", <<"+">>),
       Token(1, "OPERATOR", <<"+">>), Token(1, "IDENTIFIER", <<"x">>) >>
\* the fixed token lists of the scenarios
ParseScenarios ==
    { S5Tokens, S6Tokens,
      << Token(1, "KEYWORD", <<"i", "n", "t">>), Token(2, "CONSTANT", <<"1">>),
         Token(2, "ERROR", <<"1", "+">>) >> }
\* the token lists of the second of two invocations
OtherTokenLists ==
    {MkTokens(w) : w \in UNION {[1..n -> TokenKinds] : n \in 0..1}}
      \cup ParseScenarios
TokenLists ==
    {MkTokens(w) : w \in UNION {[1..n -> TokenKinds] : n \in 0..MaxToks}}
      \cup ParseScenarios

(***************************************************************************)
(* LR1Parser: construction and parse.                                      *)
(***************************************************************************)
\* the parser fields take the value of a freshly constructed LR1Parser
ParserIs(P) ==
    /\ grammar = P.grammar
    /\ first_sets = P.first_sets
    /\ states = P.states
    /\ goto = P.goto
    /\ action_table = P.action_table
    /\ goto_table = P.goto_table
    /\ states_dump = P.states_dump

\* the lexer is not used by the parser runs
LexIdle ==
    /\ keywords = {}
    /\ code = <<>>
    /\ pos = 0
    /\ line = 1
    /\ current_state = "NONE"
    /\ buffer = <<>>
    /\ tokens = <<>>
    /\ lpc = "idle"
    /\ returned = <<>>

(***************************************************************************)
(* Grammar(grammar_file): loading alone, on files of every shape.          *)
(***************************************************************************)
\* the most lines, and the most alternatives of a line, of an enumerated file
MaxLines == 2
MaxAlts == 2
\* the left sides and the alternatives the files are enumerated from
LoaderLefts == {Sym("S"), Sym("A"), IdSym, Sym("a")}
LoaderAlts == { <<Sym("A")>>, <<IdSym>>, <<Sym("a"), Q("x")>>, <<EPS>> }
LoaderLines ==
    { GLine(l, a) : l \in LoaderLefts,
                    a \in UNION {[1..n -> LoaderAlts] : n \in 1..MaxAlts} }
LoaderFiles ==
    (UNION {[1..n -> LoaderLines] : n \in 1..MaxLines}) \cup GrammarFiles

\* no Grammar has been constructed yet; gfile is the file it will be given
GrammarInit ==
    /\ gfile \in LoaderFiles
    /\ hashseed = 0
    /\ grammar = <<>>
    /\ first_sets = <<>>
    /\ states = <<>>
    /\ goto = <<>>
    /\ action_table = <<>>
    /\ goto_table = <<>>
    /\ states_dump = <<>>
    /\ ptokens = <<>>
    /\ stack = <<>>
    /\ ppos = 0
    /\ errors = <<>>
    /\ reduced = <<>>
    /\ presult = "none"
    /\ ppc = "unloaded"
    /\ other = NoInvocation("none")
    /\ LexIdle

\* Grammar.__init__, lines 56-61: the fields are set by _load_grammar
LoadFile ==
    /\ ppc = "unloaded"
    /\ grammar' = LoadGrammar(gfile)
    /\ ppc' = "loaded"
    /\ UNCHANGED <<gfile, hashseed, first_sets, states, goto, action_table,
                   goto_table, states_dump, ptokens, stack, ppos, errors,
                   reduced, presult, other>>
    /\ UNCHANGED lexVars

SpecGrammar == GrammarInit /\ [][LoadFile]_vars

\* LR1Parser.__init__, line 164: the FIRST sets of the grammar just loaded
ComputeFirstSets ==
    /\ ppc = "loaded"
    /\ first_sets' = compute_first_sets(grammar)
    /\ ppc' = "first"
    /\ UNCHANGED <<gfile, hashseed, grammar, states, goto, action_table,
                   goto_table, states_dump, ptokens, stack, ppos, errors,
                   reduced, presult, other>>
    /\ UNCHANGED lexVars

FirstNext == LoadFile \/ ComputeFirstSets

\* the constructor of LR1Parser up to the FIRST sets, on files of every shape
SpecFirst == GrammarInit /\ [][FirstNext]_vars

\* LR1Parser(grammar_file) has been constructed; parse has not been called
ParInit ==
    /\ gfile \in GrammarFiles
    /\ hashseed \in Seeds
    /\ ParserIs(NewParser(gfile, hashseed))
    /\ ptokens = <<>>
    /\ stack = <<>>
    /\ ppos = 0
    /\ errors = <<>>
    /\ reduced = <<>>
    /\ presult = "none"
    /\ ppc = "ready"
    /\ other = NoInvocation("ready")
    /\ LexIdle

\* LR1Parser.__init__ once more on the same grammar file, in a run with its
\* own hash seed (main and the GUI build a new parser for every analysis)
Construct ==
    /\ ppc = "ready"
    /\ \E seed \in Seeds :
          LET P == NewParser(gfile, seed)
          IN /\ hashseed' = seed
             /\ grammar' = P.grammar
             /\ first_sets' = P.first_sets
             /\ states' = P.states
             /\ goto' = P.goto
             /\ action_table' = P.action_table
             /\ goto_table' = P.goto_table
             /\ states_dump' = P.states_dump
    /\ UNCHANGED <<gfile, ptokens, stack, ppos, errors, reduced, presult, ppc, other>>
    /\ UNCHANGED lexVars

\* parse, lines 400-403
ParseCall ==
    /\ ppc = "ready"
    /\ \E toks \in TokenLists : ptokens' = toks
    /\ stack' = << <<0, END>> >>
    /\ ppos' = 0
    /\ errors' = <<>>
    /\ reduced' = <<>>
    /\ ppc' = "parsing"
    /\ UNCHANGED <<presult>>
    /\ UNCHANGED tableVars
    /\ UNCHANGED other
    /\ UNCHANGED lexVars

\* lines 401, 410, 411
InputTokens == convert_tokens(ptokens) \o <<END>>
TopState == stack[Len(stack)][1]
CurrentToken == InputTokens[ppos + 1]
ActionKey == <<TopState, CurrentToken>>

\* line 425: the parts of the f-string, line_no and current_token
SyntaxError(line_no, tok) ==
    [line |-> line_no, message |-> "Syntax error, unexpected token", quoted |-> tok]
\* str(n) for a natural number n
DigitChars == <<"0", "1", "2", "3", "4", "5", "6", "7", "8", "9">>
RECURSIVE DecimalStr(_)
DecimalStr(n) ==
    IF n < 10 THEN <<DigitChars[n + 1]>>
    ELSE DecimalStr(n \div 10) \o <<DigitChars[(n % 10) + 1]>>
\* line 425: the characters of the error string,
\* f"Line {line_no}: Syntax error, unexpected token '{current_token}'"
ErrorString(err) ==
    <<"L", "i", "n", "e", " ">> \o DecimalStr(err.line)
      \o <<":", " ", "S", "y", "n", "t", "a", "x", " ", "e", "r", "r", "o", "r", ",", " ",
            "u", "n", "e", "x", "p", "e", "c", "t", "e", "d", " ",
            "t", "o", "k", "e", "n", " ", "'">>
      \o err.quoted \o <<"'">>

\* lines 418-426: no action; tokens[-1] raises IndexError on an empty list
ParseError ==
    /\ ppc = "parsing"
    /\ ActionKey \notin DOMAIN action_table
    /\ IF ppos < Len(ptokens) \/ ptokens # <<>>
       THEN LET line_no == IF ppos < Len(ptokens) THEN ptokens[ppos + 1].line
                           ELSE ptokens[Len(ptokens)].line
            IN /\ errors' = Append(errors, SyntaxError(line_no, CurrentToken))
               /\ presult' = "failure"
               /\ ppc' = "returned"
       ELSE /\ presult' = "IndexError"
            /\ ppc' = "raised"
            /\ UNCHANGED errors
    /\ UNCHANGED <<ptokens, stack, ppos, reduced>>
    /\ UNCHANGED tableVars
    /\ UNCHANGED other
    /\ UNCHANGED lexVars

\* lines 431-433
ParseShift ==
    /\ ppc = "parsing"
    /\ ActionKey \in DOMAIN action_table
    /\ action_table[ActionKey].type = "shift"
    /\ stack' = Append(stack, <<action_table[ActionKey].value, CurrentToken>>)
    /\ ppos' = ppos + 1
    /\ UNCHANGED <<ptokens, errors, reduced, presult, ppc>>
    /\ UNCHANGED tableVars
    /\ UNCHANGED other
    /\ UNCHANGED lexVars

\* the longest trace of reductions that is kept: `reduced` holds the first
\* MaxTrace productions of the "Reduced by" lines
MaxTrace == 8

\* a plausible slip: one entry too few is popped
PopCountShort(rhs) == IF Len(rhs) > 0 THEN Len(rhs) - 1 ELSE 0

\* line 435: how many entries a reduce pops
PopCount(rhs) == Len(rhs)

\* lines 434-440; pop() and stack[-1] raise IndexError on an empty list, and
\* goto_table[...] raises KeyError on a missing key
ParseReduce ==
    /\ ppc = "parsing"
    /\ ActionKey \in DOMAIN action_table
    /\ action_table[ActionKey].type = "reduce"
    /\ LET value == action_table[ActionKey].value
           n == PopCount(value.right)
       IN IF n >= Len(stack)
          THEN /\ presult' = "IndexError"
               /\ ppc' = "raised"
               /\ UNCHANGED <<stack, reduced>>
          ELSE LET popped == SubSeq(stack, 1, Len(stack) - n)
                   prev_state == popped[Len(popped)][1]
               IN IF <<prev_state, value.left>> \notin DOMAIN goto_table
                  THEN /\ presult' = "KeyError"
                       /\ ppc' = "raised"
                       /\ UNCHANGED <<stack, reduced>>
                  ELSE /\ stack' = Append(popped,
                                     <<goto_table[<<prev_state, value.left>>], value.left>>)
                       /\ reduced' = IF Len(reduced) < MaxTrace
                                     THEN Append(reduced, value) ELSE reduced
                       /\ UNCHANGED <<presult, ppc>>
    /\ UNCHANGED <<ptokens, ppos, errors>>
    /\ UNCHANGED tableVars
    /\ UNCHANGED other
    /\ UNCHANGED lexVars

\* lines 441-443
ParseAccept ==
    /\ ppc = "parsing"
    /\ ActionKey \in DOMAIN action_table
    /\ action_table[ActionKey].type = "accept"
    /\ presult' = "success"
    /\ ppc' = "returned"
    /\ UNCHANGED <<ptokens, stack, ppos, errors, reduced>>
    /\ UNCHANGED tableVars
    /\ UNCHANGED other
    /\ UNCHANGED lexVars

ParNext ==
    \/ Construct
    \/ ParseCall
    \/ ParseError
    \/ ParseShift
    \/ ParseReduce
    \/ ParseAccept

SpecParser == ParInit /\ [][ParNext]_vars

(***************************************************************************)
(* Two parse invocations on one parser.  stack, input_tokens, errors and   *)
(* pos are locals of parse (lines 400-403): the second invocation has its  *)
(* own, in `other`.                                                        *)
(***************************************************************************)
\* a plausible slip: the error list is kept on the parser, not in the call
ErrorsShared(loc) == errors
\* line 402: errors, a local of the invocation
ErrorsOf(loc) == loc.errors

\* one pass of the while loop, lines 409-447, on the locals loc
PassOf(loc) ==
    LET input_tokens == convert_tokens(loc.ptokens) \o <<END>>
        state == loc.stack[Len(loc.stack)][1]
        current_token == input_tokens[loc.ppos + 1]
        key == <<state, current_token>>
    IN IF key \notin DOMAIN action_table
       THEN IF loc.ptokens = <<>>
            THEN [loc EXCEPT !.presult = "IndexError", !.ppc = "raised"]
            ELSE LET line_no == IF loc.ppos < Len(loc.ptokens)
                                THEN loc.ptokens[loc.ppos + 1].line
                                ELSE loc.ptokens[Len(loc.ptokens)].line
                 IN [loc EXCEPT
                       !.errors = Append(ErrorsOf(loc), SyntaxError(line_no, current_token)),
                       !.presult = "failure", !.ppc = "returned"]
       ELSE LET act == action_table[key]
            IN IF act.type = "shift"
               THEN [loc EXCEPT !.stack = Append(loc.stack, <<act.value, current_token>>),
                                !.ppos = loc.ppos + 1]
               ELSE IF act.type = "reduce"
               THEN LET n == PopCount(act.value.right)
                    IN IF n >= Len(loc.stack)
                       THEN [loc EXCEPT !.presult = "IndexError", !.ppc = "raised"]
                       ELSE LET popped == SubSeq(loc.stack, 1, Len(loc.stack) - n)
                                gkey == <<popped[Len(popped)][1], act.value.left>>
                            IN IF gkey \notin DOMAIN goto_table
                               THEN [loc EXCEPT !.presult = "KeyError", !.ppc = "raised"]
                               ELSE [loc EXCEPT !.stack =
                                       Append(popped, <<goto_table[gkey], act.value.left>>)]
               ELSE [loc EXCEPT !.errors = ErrorsOf(loc),
                                !.presult = "success", !.ppc = "returned"]

\* parse, lines 400-403, called a second time while the first call may be
\* anywhere in its loop
OtherCall ==
    /\ ppc # "none"
    /\ other.ppc = "ready"
    /\ \E toks \in OtherTokenLists :
          other' = [ptokens |-> toks, stack |-> << <<0, END>> >>, ppos |-> 0,
                    errors |-> <<>>, presult |-> "none", ppc |-> "parsing"]
    /\ UNCHANGED <<ptokens, stack, ppos, errors, reduced, presult, ppc>>
    /\ UNCHANGED tableVars
    /\ UNCHANGED lexVars

\* one pass of the loop of the second invocation
OtherPass ==
    /\ other.ppc = "parsing"
    /\ other' = PassOf(other)
    /\ UNCHANGED <<ptokens, stack, ppos, errors, reduced, presult, ppc>>
    /\ UNCHANGED tableVars
    /\ UNCHANGED lexVars

\* one pass of the while loop of parse, lines 409-447
ParseStep ==
    \/ ParseError
    \/ ParseShift
    \/ ParseReduce
    \/ ParseAccept
\* parse runs on the thread of its caller: a call whose loop can make a pass
\* makes it
SpecParserFair == ParInit /\ [][ParNext]_vars /\ WF_vars(ParseStep)

\* two invocations of parse on one parser, their passes interleaved
SharedNext ==
    \/ ParseCall
    \/ ParseStep
    \/ OtherCall
    \/ OtherPass
SpecParserShared == ParInit /\ [][SharedNext]_vars

(***************************************************************************)
(* Properties of the scanner.                                              *)
(***************************************************************************)
\* ASCII whitespace
WhiteChars == {" ", "\t", "\r", "\n"}
\* the lexemes of a token list, joined in emission order
RECURSIVE Lexemes(_)
Lexemes(toks) ==
    IF toks = <<>> THEN <<>> ELSE Head(toks).value \o Lexemes(Tail(toks))
\* a text without its whitespace
NonWhite(s) == SelectSeq(s, LAMBDA c : c \notin WhiteChars)
\* the number of newlines among the first k characters of s
NewlinesBefore(s, k) == Cardinality({j \in 1..k : s[j] = "\n"})
\* a character for which handle_start has no branch of its own
OtherChar(c) ==
    ~(\/ IsAlpha(c) \/ c = "_" \/ IsDigit(c) \/ c = "\""
      \/ c \in OperatorChars \/ c \in DelimiterChars \/ c \in WhiteChars)
\* the position after the maximal run of digits that follows position p
DigitRunEnd(s, p) ==
    CHOOSE j \in p..Len(s) :
        /\ \A m \in (p + 1)..j : IsDigit(s[m])
        /\ (j = Len(s) \/ ~IsDigit(s[j + 1]))

\* C3 (token coverage): when tokenize has returned, the lexemes of the
\* emitted tokens, joined in order, hold exactly the non-whitespace
\* characters of the input, in order: none is lost, none is emitted twice.
C3_TokenCoverage ==
    lpc = "done" => NonWhite(Lexemes(tokens)) = NonWhite(code)

\* C4 (unknown characters): a step of handle_start on a character that is
\* no letter, '_', digit, '"', operator, delimiter or whitespace appends
\* exactly one ERROR token whose lexeme is that character.
C4_StartEmitsError ==
    [][ (InLoop("START") /\ OtherChar(CurChar))
          => tokens' = Append(tokens, Token(line, "ERROR", <<CurChar>>)) ]_vars

\* C5 (token lines): every token a step emits carries the line on which
\* its first character stands, 1 plus the number of newlines before that
\* character (the token starts where the buffer starts, or at the
\* character read when the buffer is empty).
C5_TokenLineIsStartLine ==
    [][ Len(tokens') > Len(tokens)
          => tokens'[Len(tokens')].line
               = 1 + NewlinesBefore(code, pos - Len(buffer)) ]_vars

\* C6 (leading zero): when START reads a '0' that a digit follows, it only
\* opens the number buffer; the next step then emits exactly one token, an
\* ERROR whose lexeme is the whole digit run, and the scanner is in START
\* with an empty buffer at the first character after the run.
C6_LeadingZeroRun ==
    [][ /\ ( /\ InLoop("START")
             /\ CurChar = "0"
             /\ pos + 1 < Len(code)
             /\ IsDigit(code[pos + 2]) )
           => /\ current_state' = "NUMBER"
              /\ buffer' = <<"0">>
              /\ pos' = pos + 1
              /\ tokens' = tokens
        /\ ( /\ InLoop("NUMBER")
             /\ buffer = <<"0">>
             /\ IsDigit(CurChar) )
           => /\ Len(tokens') = Len(tokens) + 1
              /\ SubSeq(tokens', 1, Len(tokens)) = tokens
              /\ tokens'[Len(tokens')].type = "ERROR"
              /\ tokens'[Len(tokens')].value
                   = Slice(code, pos - 1, DigitRunEnd(code, pos))
              /\ pos' = DigitRunEnd(code, pos)
              /\ current_state' = "START"
              /\ buffer' = <<>> ]_vars

\* a leading-zero run of three digits has just been turned into one ERROR
C6_Witness ==
    /\ lpc = "scan"
    /\ current_state = "START"
    /\ buffer = <<>>
    /\ tokens # <<>>
    /\ LET t == tokens[Len(tokens)]
       IN /\ t.type = "ERROR"
          /\ Len(t.value) = 3
          /\ IsDigits(t.value)
          /\ t.value[1] = "0"
          /\ pos = Len(t.value)

\* C7 (keyword vs identifier): every KEYWORD token's lexeme is in the
\* keyword set; every IDENTIFIER token's lexeme has the shape
\* [A-Za-z_]\w* and is not in the keyword set.
C7_KeywordVsIdentifier ==
    \A k \in 1..Len(tokens) :
        /\ tokens[k].type = "KEYWORD" => tokens[k].value \in keywords
        /\ tokens[k].type = "IDENTIFIER"
             => /\ IdentifierBody(tokens[k].value)
                /\ tokens[k].value \notin keywords

\* a keyword of identifier shape and an identifier have both been emitted
C7_Witness ==
    /\ lpc = "done"
    /\ \E j \in 1..Len(tokens) : \E k \in 1..Len(tokens) :
          /\ tokens[j].type = "KEYWORD"
          /\ IdentifierBody(tokens[j].value)
          /\ tokens[k].type = "IDENTIFIER"

\* C15 (token lists are per-run): tokenize(s) returns the tokens of s with
\* lines counted from 1 whatever was tokenized before on the same Lexer; a
\* call on the text of the first call returns what the first call returned.
C15_TokensPerRun ==
    \A k \in 1..Len(returned) :
        returned[k].code = returned[1].code
          => returned[k].tokens = returned[1].tokens

\* C16 (line monotonicity): in the token list of tokenize the line of a
\* token is never less than the line of the token before it.
C16_LinesNonDecreasing ==
    \A k \in 1..(Len(tokens) - 1) : tokens[k].line <= tokens[k + 1].line

\* tokenize has returned tokens on different lines, the earlier of them
\* finalized by a back-step
C16_Witness ==
    /\ lpc = "done"
    /\ \E k \in 1..(Len(tokens) - 1) :
          /\ tokens[k].line < tokens[k + 1].line
          /\ tokens[k].type \in {"KEYWORD", "IDENTIFIER", "CONSTANT"}

\* C17 (newline inside a string): a newline met in state STRING emits one
\* ERROR token with the contents buffered so far (STRING puts every
\* character it reads into the buffer, the newline too), empties the
\* buffer, returns to START, advances the line counter by one and goes on
\* with the character after the newline.
C17_StringNewline ==
    [][ (InLoop("STRING") /\ CurChar = "\n")
          => /\ Len(tokens') = Len(tokens) + 1
             /\ SubSeq(tokens', 1, Len(tokens)) = tokens
             /\ tokens'[Len(tokens')].type = "ERROR"
             /\ tokens'[Len(tokens')].value = Append(buffer, "\n")
             /\ buffer' = <<>>
             /\ current_state' = "START"
             /\ line' = line + 1
             /\ pos' = pos + 1 ]_vars

\* an unterminated string has been broken off by a newline
C17_Witness ==
    /\ lpc = "scan"
    /\ pos > 1
    /\ code[pos] = "\n"
    /\ current_state = "START"
    /\ tokens # <<>>
    /\ tokens[Len(tokens)].type = "ERROR"
    /\ Len(tokens[Len(tokens)].value) >= 2
    /\ tokens[Len(tokens)].value[1] = "\""
    /\ tokens[Len(tokens)].value[Len(tokens[Len(tokens)].value)] = "\n"

\* the text of scenario S1 and the tokens it is to give
S1Text == <<"i", "n", "t", " ", "x", " ", "=", " ", "4", "2", ";">>
S1Tokens ==
    << Token(1, "KEYWORD", <<"i", "n", "t">>), Token(1, "IDENTIFIER", <<"x">>),
       Token(1, "OPERATOR", <<"=">>), Token(1, "CONSTANT", <<"4", "2">>),
       Token(1, "DELIMITER", <<";">>) >>
\* the step of IDENTIFIER or NUMBER on a character that ends the token
FinalizingStep ==
    \/ InLoop("IDENTIFIER") /\ ~(IsAlnum(CurChar) \/ CurChar = "_")
    \/ /\ InLoop("NUMBER")
       /\ ~IsDigit(CurChar)
       /\ CurChar \notin {".", "e", "E"} \cup SignChars
C19_TokenizeTerminates == (lpc = "scan") ~> (lpc = "done")

\* tokenize has returned from a text on which COMPLEX stepped two back
C19_Witness ==
    /\ lpc = "done"
    /\ code = <<"1", "+", ";">>
    /\ Len(tokens) = 3
    /\ tokens[2].value = <<"+">>

(***************************************************************************)
(* Properties of the parser.                                               *)
(***************************************************************************)
\* the terminal sequence parse works on
ParsedInput == convert_tokens(ptokens)

\* form derives w in g (leftmost derivation of at most `fuel` steps; a form
\* holding more terminals than w is given up)
RECURSIVE Derives(_, _, _, _)
Derives(g, form, w, fuel) ==
    IF form = <<>> THEN w = <<>>
    ELSE IF Head(form) \notin g.non_terminals
    THEN w # <<>> /\ Head(w) = Head(form) /\ Derives(g, Tail(form), Tail(w), fuel)
    ELSE /\ fuel > 0
         /\ Len(SelectSeq(form, LAMBDA s : s \notin g.non_terminals)) <= Len(w)
         /\ \E p \in ProdsOf(g, Head(form)) :
               Derives(g, p.right \o Tail(form), w, fuel - 1)
\* w is in the language of the start symbol of g
InLanguage(g, w) == Derives(g, <<g.start_symbol>>, w, 4 * Len(w) + 4)

\* the reductions reds[1..k], undone from the last to the first, each at the
\* right-most non-terminal of the form, turn form into w
RECURSIVE UndoReductions(_, _, _, _, _)
UndoReductions(g, form, reds, k, w) ==
    IF k = 0 THEN form = w
    ELSE LET nts == {j \in 1..Len(form) : form[j] \in g.non_terminals}
         IN /\ nts # {}
            /\ LET j == CHOOSE x \in nts : \A y \in nts : y <= x
               IN /\ form[j] = reds[k].left
                  /\ UndoReductions(g,
                        SubSeq(form, 1, j - 1) \o reds[k].right
                          \o SubSeq(form, j + 1, Len(form)),
                        reds, k - 1, w)
\* the reductions performed form a right-most derivation of w from the start
\* symbol (accept stands for the step by a production of the start symbol)
IsRightmostDerivation(g, reds, w) ==
    \E p \in ProdsOf(g, g.start_symbol) :
        UndoReductions(g, p.right, reds, Len(reds), w)

\* g with a fresh start symbol Z and the production Z -> start in front
Augmented(g) ==
    [ productions |-> <<Production(<<"Z">>, <<g.start_symbol>>)>> \o g.productions,
      terminals |-> g.terminals,
      non_terminals |-> g.non_terminals \cup {<<"Z">>},
      start_symbol |-> <<"Z">> ]
\* g is LR(1): the canonical collection of the augmented grammar has no state
\* with two actions on one terminal
IsLR1(g) ==
    LET ag == Augmented(g)
        sts == build_states(ag, compute_first_sets(ag)).states
    IN \A k \in 1..Len(sts) : \A x \in sts[k] : \A y \in sts[k] :
          (is_complete(x) /\ x # y)
            => /\ ~(is_complete(y) /\ y.lookahead = x.lookahead)
               /\ get_next_symbol(y) # x.lookahead

\* state i holds a complete item of a production other than a start
\* production with lookahead a
ReducibleOn(i, a) ==
    \E item \in states[i + 1] :
        /\ is_complete(item)
        /\ item.production.left # grammar.start_symbol
        /\ item.lookahead = a
\* state i holds complete items of two different productions, neither of the
\* start symbol, with the same lookahead, and one of them is ACTION[i, a]
ReduceReduceAt(i) ==
    \E x \in states[i + 1] : \E y \in states[i + 1] :
        /\ is_complete(x) /\ is_complete(y)
        /\ x.production # y.production
        /\ x.production.left # grammar.start_symbol
        /\ y.production.left # grammar.start_symbol
        /\ x.lookahead = y.lookahead
        /\ <<i, x.lookahead>> \in DOMAIN action_table
        /\ action_table[<<i, x.lookahead>>].type = "reduce"
        /\ action_table[<<i, x.lookahead>>].value \in {x.production, y.production}

\* C1 (soundness): when parse returns success, the terminal sequence is in
\* the language of the start symbol, and the reductions performed, read in
\* reverse, are a right-most derivation of it.
C1_ParserSoundness ==
    (ppc = "returned" /\ presult = "success")
      => /\ InLanguage(grammar, ParsedInput)
         /\ IsRightmostDerivation(grammar, reduced, ParsedInput)

\* C2 (completeness): for an LR(1) grammar, parse of a terminal sequence in
\* the language returns success with no errors.
C2_ParserCompleteness ==
    (/\ ppc \in {"returned", "raised"}
     /\ ~(presult = "success" /\ errors = <<>>)
     /\ InLanguage(grammar, ParsedInput))
      => ~IsLR1(grammar)

\* C8 (shift-reduce policy): where goto[i, a] is defined for a terminal a and
\* state i also holds a complete item of a non-start production with
\* lookahead a, ACTION[i, a] is the shift to goto[i, a].
C8_ShiftKept ==
    \A key \in DOMAIN goto :
        (key[2] \in grammar.terminals /\ ReducibleOn(key[1], key[2]))
          => /\ key \in DOMAIN action_table
             /\ action_table[key].type = "shift"
             /\ action_table[key].value = goto[key]

\* a constructed parser has a shift-reduce conflict (resolved to the shift)
C8_Witness ==
    /\ ppc = "ready"
    /\ \E key \in DOMAIN goto :
          /\ key[2] \in grammar.terminals
          /\ ReducibleOn(key[1], key[2])
          /\ action_table[key].type = "shift"

\* C9 (reduce-reduce conflicts are fatal): construction never returns a
\* table in which one of two conflicting reduces occupies ACTION[i, a].
C9_ReduceReduceFatal ==
    ppc # "none" => \A i \in 0..(Len(states) - 1) : ~ReduceReduceAt(i)

\* C10 (determinism of tables): a second construction from the same grammar
\* file yields the same states in the same order, the same state dump and
\* the same ACTION and GOTO tables.
C10_TablesDeterministic ==
    [][ (ppc = "ready" /\ ppc' = "ready" /\ gfile' = gfile)
          => /\ states' = states
             /\ states_dump' = states_dump
             /\ action_table' = action_table
             /\ goto_table' = goto_table ]_vars

\* C11 (scenario S5): with the grammar E -> E '+' T | T ; T -> T '*' F | F ;
\* F -> '(' E ')' | ID loaded as written, parse of ID '+' ID '*' ID returns
\* success with no errors.
C11_ScenarioS5 ==
    (gfile = G_S5 /\ ptokens = S5Tokens /\ ppc \in {"returned", "raised"})
      => (presult = "success" /\ errors = <<>>)

\* a terminal as it is written between the quotes of an error string: a
\* quoted terminal without its quotes, ID, CONSTANT and $ as they are
BareSymbol(sym) ==
    IF Len(sym) >= 2 /\ sym[1] = "'" /\ sym[Len(sym)] = "'"
    THEN SubSeq(sym, 2, Len(sym) - 1) ELSE sym
\* "Line <N>: Syntax error, unexpected token '<sym>'"
ExpectedErrorString(n, sym) ==
    <<"L", "i", "n", "e", " ">> \o DecimalStr(n)
      \o <<":", " ", "S", "y", "n", "t", "a", "x", " ", "e", "r", "r", "o", "r", ",", " ",
            "u", "n", "e", "x", "p", "e", "c", "t", "e", "d", " ",
            "t", "o", "k", "e", "n", " ", "'">>
      \o sym \o <<"'">>
\* C12 (scenario S6 and the error-string format): an undefined action gives
\* the error string "Line <N>: Syntax error, unexpected token '<sym>'" with
\* the offending symbol between one pair of single quotes; for the grammar
\* of S5 and the tokens of ID '+' '+' ID the one error string is
\* "Line 1: Syntax error, unexpected token '+'".
C12_ErrorStringFormat ==
    (ppc = "returned" /\ presult = "failure")
      => /\ \A k \in 1..Len(errors) :
               ErrorString(errors[k])
                 = ExpectedErrorString(errors[k].line, BareSymbol(errors[k].quoted))
         /\ (gfile = G_S5 /\ ptokens = S6Tokens)
               => /\ Len(errors) = 1
                  /\ ErrorString(errors[1]) = ExpectedErrorString(1, <<"+">>)

\* C13 (undefined action): when ACTION[s, t] is undefined, parse stops there
\* and returns failure with exactly one error, on the line of the current
\* token, or of the last token when the input is exhausted; the position
\* and the stack are left as they are.
C13_UndefinedActionStops ==
    [][ (ppc = "parsing" /\ ActionKey \notin DOMAIN action_table)
          => /\ ppc' = "returned"
             /\ presult' = "failure"
             /\ Len(errors') = 1
             /\ errors'[1].line = IF ppos < Len(ptokens) THEN ptokens[ppos + 1].line
                                  ELSE ptokens[Len(ptokens)].line
             /\ ppos' = ppos
             /\ stack' = stack ]_vars

\* C14 (failures are values): parse returns a (success, errors) pair for
\* every token list and never ends by an exception.
C14_NoEscapingException ==
    /\ ppc # "raised"
    /\ presult \in {"none", "success", "failure"}

\* C20 (parse terminates): for every grammar the tables were built from and
\* every token list, the loop of parse reaches accept or an undefined action
\* (parse ends) after finitely many passes, and shifts at most as many
\* times as there are input terminals.
C20_ParseTerminates ==
    /\ [](ppos <= Len(ptokens))
    /\ (ppc = "parsing") ~> (ppc \in {"returned", "raised"})

\* the most passes of the loop that parse is followed for
MaxPasses == 40
\* parse run alone from the locals loc, for at most `fuel` passes
RECURSIVE RunAlone(_, _)
RunAlone(loc, fuel) ==
    IF loc.ppc # "parsing" \/ fuel = 0 THEN loc
    ELSE RunAlone(PassOf(loc), fuel - 1)
\* the result of parse(toks) run alone on the parser
ResultAlone(toks) ==
    LET end == RunAlone([ptokens |-> toks, stack |-> << <<0, END>> >>, ppos |-> 0,
                         errors |-> <<>>, presult |-> "none", ppc |-> "parsing"],
                        MaxPasses)
    IN <<end.ppc, end.presult, end.errors>>

\* C21 (interleaved invocations): parse leaves the grammar, the FIRST sets,
\* the item sets, the goto map and the tables as they are, and each of two
\* invocations whose passes are interleaved ends with the result it has
\* when it runs alone.
C21_InterleavingSafe ==
    /\ [][tableVars' = tableVars]_vars
    /\ []((ppc \in {"returned", "raised"})
            => <<ppc, presult, errors>> = ResultAlone(ptokens))
    /\ []((other.ppc \in {"returned", "raised"})
            => <<other.ppc, other.presult, other.errors>> = ResultAlone(other.ptokens))

\* both invocations have ended, one begun while the other was in its loop
\* and ended before it, one with an error
C21_Witness ==
    /\ ppc = "returned"
    /\ other.ppc = "returned"
    /\ presult = "success"
    /\ other.presult = "failure"
    /\ Len(ptokens) > Len(other.ptokens)

\* C22 (grammar invariants): after a file is loaded the start symbol is the
\* left side of the first rule and of some production, every symbol of a
\* right side is a terminal or a non-terminal, and no symbol is both.
C22_GrammarInvariants ==
    ppc = "loaded"
      => /\ grammar.start_symbol = gfile[1].left
         /\ \E p \in ProdSet(grammar) : p.left = grammar.start_symbol
         /\ \A p \in ProdSet(grammar) : \A k \in 1..Len(p.right) :
               p.right[k] \in grammar.terminals \cup grammar.non_terminals
         /\ grammar.terminals \cap grammar.non_terminals = {}

\* the place of the sign in the buffer of state COMPLEX
SignIndex == CHOOSE k \in 1..Len(buffer) : buffer[k] \in SignChars

\* a pass of handle_complex that ends the state without a finished complex
\* number: the position pointer has gone back
ComplexBreaks == InLoop("COMPLEX") /\ pos' <= pos

\* C23 (broken COMPLEX shape): when the character read in COMPLEX is no
\* continuation, only the sign is dropped: one token is added, its lexeme the
\* number before the sign and without any sign in it, and the scan goes on
\* from START at the sign with an empty buffer.
C23_ComplexBreak ==
    [][ComplexBreaks =>
          /\ tokens' = Append(tokens, tokens'[Len(tokens')])
          /\ tokens'[Len(tokens')].value = SubSeq(buffer, 1, SignIndex - 1)
          /\ \A k \in 1..Len(tokens'[Len(tokens')].value) :
                tokens'[Len(tokens')].value[k] \notin SignChars
          /\ pos' = pos - (Len(buffer) - SignIndex + 1)
          /\ current_state' = "START"
          /\ buffer' = <<>>]_vars

\* C24 (string state): a pass in STRING takes the character read into the
\* buffer; at a quote whose preceding buffered character is no backslash, and
\* at no other character, it adds one CONSTANT token whose lexeme is the
\* buffer from the opening quote to this quote, and leaves for START with an
\* empty buffer.
C24_StringFinalized ==
    [][InLoop("STRING") =>
          /\ pos' = pos + 1
          /\ IF CurChar = "\"" /\ buffer[Len(buffer)] # "\\"
             THEN /\ tokens' = Append(tokens, Token(line', "CONSTANT",
                                                    Append(buffer, CurChar)))
                  /\ buffer[1] = "\""
                  /\ current_state' = "START"
                  /\ buffer' = <<>>
             ELSE CurChar # "\n"
                    => /\ buffer' = Append(buffer, CurChar)
                       /\ tokens' = tokens
                       /\ current_state' = "STRING"]_vars

\* a string with an escaped quote inside has been emitted whole
C24_Witness ==
    /\ lpc = "done"
    /\ tokens = <<Token(1, "CONSTANT", <<"\"", "\\", "\"", "\"">>)>>

\* FIRST of the symbols of rhs from index k on, read off the sets F
RECURSIVE RhsFirst(_, _, _)
RhsFirst(F, rhs, k) ==
    IF k > Len(rhs) THEN {EPS}
    ELSE (F[rhs[k]] \ {EPS})
           \cup (IF EPS \in F[rhs[k]] THEN RhsFirst(F, rhs, k + 1) ELSE {})
\* the right sides of the FIRST equations of g, all taken at the sets F
FirstEquations(g, F) ==
    [X \in DOMAIN F |->
        IF X \in g.terminals THEN {X}
        ELSE UNION {RhsFirst(F, p.right, 1) : p \in ProdsOf(g, X)}]
\* the least solution: the equations applied again and again to empty sets
RECURSIVE LeastSolution(_, _)
LeastSolution(g, F) ==
    IF FirstEquations(g, F) = F THEN F ELSE LeastSolution(g, FirstEquations(g, F))
LeastFirst(g) ==
    LeastSolution(g, [X \in g.terminals \cup g.non_terminals |-> {}])

\* C25 (FIRST sets): _compute_first_sets ends with, for every grammar symbol,
\* the least solution of the FIRST equations: a terminal has itself alone; a
\* non-terminal has the terminals that begin what it derives, and epsilon
\* when it derives the empty string.
C25_FirstSetsLeast ==
    ppc = "first" => first_sets = LeastFirst(grammar)

\* FIRST(beta a) without epsilon, from the least solution of the equations
LookaheadsOf(g, item) ==
    LET F == LeastFirst(g) @@ (END :> {END})
        beta == SubSeq(item.production.right, item.dot_position + 2,
                       Len(item.production.right))
    IN RhsFirst(F, Append(beta, item.lookahead), 1) \ {EPS}
\* the items the closure rule asks for, given the items I
Required(g, I) ==
    UNION { { LR1Item(p, 0, b) : p \in ProdsOf(g, get_next_symbol(item)),
                                 b \in LookaheadsOf(g, item) }
            : item \in {it \in I : get_next_symbol(it) \in g.non_terminals} }
Closed(g, I) == Required(g, I) \subseteq I
\* the least closed superset of K
RECURSIVE LeastClosed(_, _)
LeastClosed(g, K) ==
    IF Closed(g, K) THEN K ELSE LeastClosed(g, K \cup Required(g, K))
\* the items a state is the closure of: the start item, or the items moved
\* over a symbol
Kernel(g, sts, k) ==
    IF k = 1 THEN {LR1Item(StartProd(g), 0, END)}
    ELSE {it \in sts[k] : it.dot_position > 0}

\* C26 (closed states): every state of the collection holds, for each of its
\* items with a non-terminal B after the dot, every item B -> . gamma, b with
\* b in FIRST(beta a) other than epsilon, and nothing the rule does not ask
\* for: it is the least closed superset of the items it was closed from.
C26_StatesClosed ==
    ppc = "ready"
      => \A k \in 1..Len(states) :
            /\ Closed(grammar, states[k])
            /\ states[k] = LeastClosed(grammar, Kernel(grammar, states, k))

\* a state holds an item added for the terminal after the non-terminal, and
\* one added through a non-terminal that derives the empty string
C26_Witness ==
    /\ ppc = "ready"
    /\ \/ /\ gfile = G_S5
          /\ LR1Item(Production(Sym("T"), <<Sym("F")>>), 0, Q("+")) \in states[1]
       \/ /\ gfile = G_Loop
          /\ LR1Item(Production(Sym("A"), <<>>), 0, END) \in states[1]

\* goto(I, X) of the construction: the items of I with X after the dot, the
\* dot moved over X, closed
Moved(I, X) ==
    { LR1Item(it.production, it.dot_position + 1, it.lookahead) :
        it \in {i2 \in I : get_next_symbol(i2) = X} }
\* the order in which the pairs (state, symbol) are taken: states by index,
\* the symbols of one state in sorted order
KeyLess(a, b) == a[1] < b[1] \/ (a[1] = b[1] /\ StrLess(a[2], b[2]))
\* the pairs that lead to state index j, and the first of them
KeysTo(gto, j) == {key \in DOMAIN gto : gto[key] = j}
FirstKey(gto, j) ==
    CHOOSE key \in KeysTo(gto, j) :
        \A o \in KeysTo(gto, j) \ {key} : KeyLess(key, o)
\* sts and gto are the canonical collection of g, numbered by discovery
Canonical(g, sts, gto) ==
    /\ \A j, k \in 1..Len(sts) : sts[j] = sts[k] => j = k
    /\ sts[1] = LeastClosed(g, {LR1Item(StartProd(g), 0, END)})
    /\ \A i \in 1..Len(sts) :
          \A X \in {get_next_symbol(it) : it \in sts[i]} \ {NoSymbol} :
             /\ <<i - 1, X>> \in DOMAIN gto
             /\ gto[<<i - 1, X>>] \in 0..(Len(sts) - 1)
             /\ sts[gto[<<i - 1, X>>] + 1] = LeastClosed(g, Moved(sts[i], X))
    /\ \A j \in 1..(Len(sts) - 1) :
          /\ KeysTo(gto, j) # {}
          /\ FirstKey(gto, j)[1] < j
          /\ \A k \in (j + 1)..(Len(sts) - 1) :
                KeyLess(FirstKey(gto, j), FirstKey(gto, k))

\* C27 (canonical collection): whenever a parser has been constructed, no
\* two state indices hold the same items, state 0 is the closure of the start
\* item with lookahead $, goto[i, X] is defined for every symbol X after a dot
\* in state i and names the state equal to goto(states[i], X), the states are
\* numbered in the order of their discovery (states by index, symbols
\* sorted), and a further construction from the same grammar file gives the
\* same states and goto map.
C27_CanonicalCollection ==
    [][ppc' = "ready"
         => /\ Canonical(grammar', states', goto')
            /\ (ppc = "ready" /\ gfile' = gfile)
                  => (states' = states /\ goto' = goto)]_vars

\* a collection in which a later state leads back to an earlier one and two
\* pairs lead to the same state
C27_Witness ==
    /\ ppc = "ready"
    /\ hashseed = NumSeeds
    /\ Len(states) > 10
    /\ \E a, b \in DOMAIN goto : a # b /\ goto[a] = goto[b]
    /\ \E a \in DOMAIN goto : goto[a] <= a[1]

\* the pass of parse about to be taken is a reduce, or a shift
ReduceDue ==
    /\ ppc = "parsing"
    /\ ActionKey \in DOMAIN action_table
    /\ action_table[ActionKey].type = "reduce"
ShiftDue ==
    /\ ppc = "parsing"
    /\ ActionKey \in DOMAIN action_table
    /\ action_table[ActionKey].type = "shift"

\* C28 (parse stack): from the call of parse on, the stack is never empty and
\* its bottom entry is (0, $); a reduce by a production with k symbols on the
\* right finds at least k entries above the bottom entry, removes exactly
\* the top k, puts one entry in their place and leaves the input position as
\* it is; a shift adds one entry and moves the input position by one.
C28_StackInvariant ==
    [][/\ ppc' # "ready" => (stack' # <<>> /\ stack'[1] = <<0, END>>)
       /\ ReduceDue =>
             LET k == Len(action_table[ActionKey].value.right)
             IN /\ Len(stack) - 1 >= k
                /\ Len(stack') = Len(stack) - k + 1
                /\ SubSeq(stack', 1, Len(stack) - k) = SubSeq(stack, 1, Len(stack) - k)
                /\ ppos' = ppos
       /\ ShiftDue =>
             /\ Len(stack') = Len(stack) + 1
             /\ SubSeq(stack', 1, Len(stack)) = stack
             /\ ppos' = ppos + 1]_vars

\* a parse has ended with success after shifts and a reduce by a production
\* with three symbols on its right side, the stack back at two entries
C28_Witness ==
    /\ ppc = "returned"
    /\ presult = "success"
    /\ ppos >= 3
    /\ Len(stack) = 2
    /\ \E j \in 1..Len(reduced) : Len(reduced[j].right) = 3

\* C29 (scan position): after the call of tokenize and after every handler
\* the position is at least 0 and at most the length of the text; the
\* back-step of a broken COMPLEX shape lands on or after the first character
\* of the lexeme in the buffer.
C29_PosInBounds ==
    [][/\ 0 <= pos'
       /\ pos' <= Len(code')
       /\ ComplexBreaks => /\ pos - Len(buffer) >= 0
                           /\ pos' >= pos - Len(buffer)]_vars

\* the scan of 1+; has gone back to the sign after the token 1
C29_Witness ==
    /\ lpc = "scan"
    /\ code = <<"1", "+", ";">>
    /\ pos = 1
    /\ current_state = "START"
    /\ tokens = <<Token(1, "CONSTANT", <<"1">>)>>

====
